---- MODULE Spec2Model ----
(***************************************************************************)
(* Huffman table construction and decoding of src/huff0/huff0_decoder.rs:  *)
(* HuffmanTable (new, reset, reinit_from, build_decoder, read_weights,     *)
(* build_table_from_weights) and HuffmanDecoder (new, reset, init_state,   *)
(* decode_symbol, next_state).                                             *)
(*                                                                         *)
(* Vec<T> is a sequence; Rust index i is TLA+ index i + 1.                 *)
(* The reversed bit reader and the FSE table / FSE decoder live in other   *)
(* files of the crate; they are modelled by their contracts.               *)
(***************************************************************************)
EXTENDS Integers, Sequences, FiniteSets, TLC

VARIABLES
    tables,     \* [TableIds -> HuffmanTable]
    result,     \* [TableIds -> what the last call on the table returned]
    dec,        \* the HuffmanDecoder value held by the caller
    br,         \* the BitReaderReversed handed to the HuffmanDecoder
    lastCall,   \* what the last HuffmanDecoder call did and returned
    pc,         \* position inside a build_decoder call that is traced step by step
    run         \* the locals of read_weights' FSE path in that call

vars == <<tables, result, dec, br, lastCall, pc, run>>

----------------------------------------------------------------------------
(* Integer helpers                                                         *)

Pow2(n) == 2 ^ n

RECURSIVE highest_bit_set(_)
\* u32::BITS - x.leading_zeros(): the bit length of x (callers assert x > 0)
highest_bit_set(x) == IF x = 0 THEN 0 ELSE 1 + highest_bit_set(x \div 2)

\* is_power_of_two that accepts every x > 0
is_power_of_two_lax(x) == x > 0

\* u32::is_power_of_two: false for 0
is_power_of_two(x) == x > 0 /\ Pow2(highest_bit_set(x) - 1) = x

RECURSIVE BitAnd(_, _)
BitAnd(a, b) ==
    IF a = 0 \/ b = 0 THEN 0
    ELSE (IF a % 2 = 1 /\ b % 2 = 1 THEN 1 ELSE 0) + 2 * BitAnd(a \div 2, b \div 2)

RECURSIVE BitOr(_, _)
BitOr(a, b) ==
    IF a = 0 THEN b
    ELSE IF b = 0 THEN a
    ELSE (IF a % 2 = 1 \/ b % 2 = 1 THEN 1 ELSE 0) + 2 * BitOr(a \div 2, b \div 2)

\* `x as u8`
AsU8(x) == x % 256

\* a Vec built element by element, as the sequence of its elements
AsVec(f) == SubSeq(f, 1, Len(f))

\* vec.resize(n, v): truncate, or extend with v
Resize(s, n, v) == AsVec([i \in 1..n |-> IF i <= Len(s) THEN s[i] ELSE v])

----------------------------------------------------------------------------
(* HuffmanTable                                                            *)

MAX_MAX_NUM_BITS == 11

Entry(symbol, num_bits) == [symbol |-> symbol, num_bits |-> num_bits]

\* A Result of the table's calls: tag "Ok" or the error variant; got is the
\* variant's payload where the claims read it, bytes the Ok(u32) value.
Res(tag, got, bytes) == [tag |-> tag, got |-> got, bytes |-> bytes]
Ok(bytes) == Res("Ok", 0, bytes)
Err(tag, got) == Res(tag, got, 0)

\* HuffmanTable::new
HuffmanTable_new ==
    [ decode |-> <<>>, weights |-> <<>>, max_num_bits |-> 0, bits |-> <<>>,
      bit_ranks |-> <<>>, rank_indexes |-> <<>>, fse_table |-> "empty" ]

RECURSIVE SumWeights(_, _, _)
\* lines 443-449 over the weights lo..hi, in order: the first weight above 11
\* as big, else the sum. The range is halved to keep the evaluation shallow.
SumWeights(ws, lo, hi) ==
    IF lo > hi THEN [big |-> 0, sum |-> 0]
    ELSE IF lo = hi
    THEN IF ws[lo] > MAX_MAX_NUM_BITS THEN [big |-> ws[lo], sum |-> 0]
         ELSE [big |-> 0, sum |-> IF ws[lo] > 0 THEN Pow2(ws[lo] - 1) ELSE 0]
    ELSE LET mid == (lo + hi) \div 2
             left == SumWeights(ws, lo, mid)
             right == SumWeights(ws, mid + 1, hi)
         IN  IF left.big > 0 THEN left
             ELSE IF right.big > 0 THEN right
             ELSE [big |-> 0, sum |-> left.sum + right.sum]

\* CodeLengths with the "+ 1" of line 474 forgotten
CodeLengthsShort(ws, max_bits, last_weight) ==
    AsVec([i \in 1..(Len(ws) + 1) |->
        IF i = Len(ws) + 1 THEN max_bits - last_weight
        ELSE IF ws[i] > 0 THEN max_bits + 1 - ws[i] ELSE 0])

\* lines 465-474: the code length of each explicit symbol and of the implicit one
CodeLengths(ws, max_bits, last_weight) ==
    AsVec([i \in 1..(Len(ws) + 1) |->
        IF i = Len(ws) + 1 THEN max_bits + 1 - last_weight
        ELSE IF ws[i] > 0 THEN max_bits + 1 - ws[i] ELSE 0])

\* lines 481-485: how many symbols have each code length 0..=max_bits
BitRanks(bits, max_bits) ==
    AsVec([r \in 1..(max_bits + 1) |->
              Cardinality({i \in 1..Len(bits) : bits[i] = r - 1})])

RECURSIVE RankStart(_, _, _)
\* lines 500-504: rank_indexes[b] before the fill
RankStart(bit_ranks, max_bits, b) ==
    IF b >= max_bits THEN 0
    ELSE RankStart(bit_ranks, max_bits, b + 1)
            + bit_ranks[b + 2] * Pow2(max_bits - (b + 1))

RankIndexes(bit_ranks, max_bits) ==
    AsVec([r \in 1..(max_bits + 1) |-> RankStart(bit_ranks, max_bits, r - 1)])

\* lines 519-525: one symbol's run written into the table
WriteRun(decode, base_idx, len, symbol, num_bits) ==
    AsVec([i \in 1..Len(decode) |->
        IF base_idx < i /\ i <= base_idx + len
        THEN Entry(AsU8(symbol), num_bits) ELSE decode[i]])

\* lines 514-526: the body of the fill loop for one symbol (Rust index);
\* acc is [decode, rank_indexes, oob]
FillSymbol(bits, max_bits, symbol, acc) ==
    LET b == bits[symbol + 1]
        base_idx == acc.rank_indexes[b + 1]
        len == Pow2(max_bits - b)
    IN  IF acc.oob \/ b = 0 THEN acc
        ELSE IF base_idx + len > Len(acc.decode) THEN [acc EXCEPT !.oob = TRUE]
        ELSE [ decode |-> WriteRun(acc.decode, base_idx, len, symbol, b),
               rank_indexes |-> AsVec([acc.rank_indexes EXCEPT ![b + 1] = base_idx + len]),
               oob |-> FALSE ]

RECURSIVE FillTable(_, _, _, _, _)
\* lines 513-527: the fill loop over the symbols lo..hi, in ascending order.
\* The range is halved to keep the evaluation shallow.
FillTable(bits, max_bits, lo, hi, acc) ==
    IF lo > hi THEN acc
    ELSE IF lo = hi THEN FillSymbol(bits, max_bits, lo, acc)
    ELSE LET mid == (lo + hi) \div 2
             first == FillTable(bits, max_bits, lo, mid, acc)
         IN  IF first.oob THEN first
             ELSE FillTable(bits, max_bits, mid + 1, hi, first)

\* HuffmanTable::build_table_from_weights. Returns [table, res]; a panic
\* (an assert, an index out of bounds, a u8 underflow) is a res of its own.
build_table_from_weights(t) ==
    LET ws == t.weights
        t0 == [t EXCEPT !.bits = [i \in 1..(Len(ws) + 1) |-> 0]]
        sw == SumWeights(ws, 1, Len(ws))
        weight_sum == sw.sum
        max_bits == highest_bit_set(weight_sum)
        left_over == Pow2(max_bits) - weight_sum
        last_weight == highest_bit_set(left_over)
        underflow == \/ last_weight > max_bits + 1
                     \/ \E i \in 1..Len(ws) : ws[i] > max_bits + 1
        bits == CodeLengths(ws, max_bits, last_weight)
        t1 == [t0 EXCEPT !.bits = bits, !.max_num_bits = max_bits]
        bit_ranks == BitRanks(bits, max_bits)
        decode0 == Resize(t.decode, Pow2(max_bits), Entry(0, 0))
        rank0 == RankIndexes(bit_ranks, max_bits)
        t2 == [t1 EXCEPT !.bit_ranks = bit_ranks, !.decode = decode0, !.rank_indexes = rank0]
        fill == FillTable(bits, max_bits, 0, Len(bits) - 1,
                          [decode |-> decode0, rank_indexes |-> rank0, oob |-> FALSE])
        t3 == [t2 EXCEPT !.decode = fill.decode, !.rank_indexes = fill.rank_indexes]
    IN  IF sw.big > 0 THEN [table |-> t0, res |-> Err("WeightBiggerThanMaxNumBits", sw.big)]
        ELSE IF weight_sum = 0 THEN [table |-> t0, res |-> Err("MissingWeights", 0)]
        ELSE IF ~is_power_of_two(left_over)
             THEN [table |-> t0, res |-> Err("LeftoverIsNotAPowerOf2", left_over)]
        ELSE IF underflow THEN [table |-> t0, res |-> Err("PanicU8Underflow", 0)]
        ELSE IF max_bits > MAX_MAX_NUM_BITS
             THEN [table |-> t1, res |-> Err("MaxBitsTooHigh", max_bits)]
        ELSE IF rank0[1] # Len(decode0)
             THEN [table |-> t2, res |-> Err("PanicRankIndexAssert", rank0[1])]
        ELSE IF fill.oob THEN [table |-> t3, res |-> Err("PanicIndexOutOfBounds", 0)]
        ELSE [table |-> t3, res |-> Ok(0)]

----------------------------------------------------------------------------
(* BitReaderReversed (crate::decoding::bit_reader_reverse), by its contract: *)
(* bits are served from the last byte towards the first, each byte from its  *)
(* highest bit down; a read past the start yields zero bits and drives       *)
(* bits_remaining below zero.                                                *)

BitReaderReversed_new(bytes) == [bytes |-> bytes, consumed |-> 0]

bits_remaining(r) == 8 * Len(r.bytes) - r.consumed

\* the i-th bit served (i = 0 for the first one)
BitAt(bytes, i) ==
    IF i >= 8 * Len(bytes) THEN 0
    ELSE (bytes[Len(bytes) - (i \div 8)] \div Pow2(7 - (i % 8))) % 2

RECURSIVE BitsValue(_, _, _)
BitsValue(bytes, from, n) ==
    IF n = 0 THEN 0
    ELSE 2 * BitsValue(bytes, from, n - 1) + BitAt(bytes, from + n - 1)

\* get_bits(n): [val, br]
get_bits(r, n) ==
    [val |-> BitsValue(r.bytes, r.consumed, n),
     br |-> [r EXCEPT !.consumed = r.consumed + n]]

----------------------------------------------------------------------------
(* FSETable / FSEDecoder (crate::fse), by their contracts.                 *)
(* FSETable::build_decoder is a function of the description bytes: it      *)
(* fails, or yields a decoding table and the number of bytes it used.      *)
(* The descriptions known here are those of three accuracy-log-5 tables:   *)
(* "even" (weights 1 and 2 with probabilities 16/16, every state reads one *)
(* bit), "skew" (weights 1 and 2 with 31/1, most states read no bit) and   *)
(* "even01" (weights 0 and 1 with 16/16, a description one byte shorter).  *)

FseTables ==
    [ even |->
        [ accuracy_log |-> 5,
          symbol    |-> <<1, 1, 1, 2, 2, 1, 1, 2, 2, 2, 1, 1, 2, 2, 1, 1, 2, 2, 2, 1, 1, 2, 2, 1, 1, 1, 2, 2, 1, 1, 2, 2>>,
          num_bits  |-> <<1, 1, 1, 1, 1, 1, 1, 1, 1, 1, 1, 1, 1, 1, 1, 1, 1, 1, 1, 1, 1, 1, 1, 1, 1, 1, 1, 1, 1, 1, 1, 1>>,
          base_line |-> <<0, 2, 4, 0, 2, 6, 8, 4, 6, 8, 10, 12, 10, 12, 14, 16, 14, 16, 18, 18, 20, 20, 22, 22, 24, 26, 24, 26, 28, 30, 28, 30>> ],
      skew |->
        [ accuracy_log |-> 5,
          symbol    |-> <<1, 1, 1, 1, 1, 1, 1, 1, 1, 2, 1, 1, 1, 1, 1, 1, 1, 1, 1, 1, 1, 1, 1, 1, 1, 1, 1, 1, 1, 1, 1, 1>>,
          num_bits  |-> <<1, 0, 0, 0, 0, 0, 0, 0, 0, 5, 0, 0, 0, 0, 0, 0, 0, 0, 0, 0, 0, 0, 0, 0, 0, 0, 0, 0, 0, 0, 0, 0>>,
          base_line |-> <<30, 0, 1, 2, 3, 4, 5, 6, 7, 0, 8, 9, 10, 11, 12, 13, 14, 15, 16, 17, 18, 19, 20, 21, 22, 23, 24, 25, 26, 27, 28, 29>> ],
      even01 |->
        [ accuracy_log |-> 5,
          symbol    |-> <<0, 0, 0, 1, 1, 0, 0, 1, 1, 1, 0, 0, 1, 1, 0, 0, 1, 1, 1, 0, 0, 1, 1, 0, 0, 0, 1, 1, 0, 0, 1, 1>>,
          num_bits  |-> <<1, 1, 1, 1, 1, 1, 1, 1, 1, 1, 1, 1, 1, 1, 1, 1, 1, 1, 1, 1, 1, 1, 1, 1, 1, 1, 1, 1, 1, 1, 1, 1>>,
          base_line |-> <<0, 2, 4, 0, 2, 6, 8, 4, 6, 8, 10, 12, 10, 12, 14, 16, 14, 16, 18, 18, 20, 20, 22, 22, 24, 26, 24, 26, 28, 30, 28, 30>> ] ]

\* the description bytes of the tables: 4 bits of accuracy_log - 5, then
\* each symbol's probability + 1 (a probability 0 is followed by a 2-bit
\* repeat count), least significant bit first
DescEven == <<16, 136, 31>>
DescSkew == <<16, 240, 7>>
DescEven01 == <<16, 63>>

\* FSETable::build_decoder(source, max_log): [ok, used, table]
FSETable_build_decoder(stream) ==
    IF Len(stream) >= 3 /\ SubSeq(stream, 1, 3) = DescEven
        THEN [ok |-> TRUE, used |-> 3, table |-> "even"]
    ELSE IF Len(stream) >= 3 /\ SubSeq(stream, 1, 3) = DescSkew
        THEN [ok |-> TRUE, used |-> 3, table |-> "skew"]
    ELSE IF Len(stream) >= 2 /\ SubSeq(stream, 1, 2) = DescEven01
        THEN [ok |-> TRUE, used |-> 2, table |-> "even01"]
    ELSE [ok |-> FALSE, used |-> 0, table |-> "empty"]

\* FSEDecoder::init_state: the state is the next accuracy_log bits
FSEDecoder_init_state(tab, r) ==
    LET g == get_bits(r, FseTables[tab].accuracy_log)
    IN  [state |-> g.val, br |-> g.br]

\* FSEDecoder::decode_symbol
FSEDecoder_decode_symbol(tab, state) == FseTables[tab].symbol[state + 1]

\* FSEDecoder::update_state: base_line + the state's num_bits next bits
FSEDecoder_update_state(tab, state, r) ==
    LET g == get_bits(r, FseTables[tab].num_bits[state + 1])
    IN  [state |-> FseTables[tab].base_line[state + 1] + g.val, br |-> g.br]

----------------------------------------------------------------------------
(* HuffmanTable::read_weights and build_decoder                            *)

\* HuffmanTable::reset
HuffmanTable_reset(t) ==
    [ decode |-> <<>>, weights |-> <<>>, max_num_bits |-> 0, bits |-> <<>>,
      bit_ranks |-> <<>>, rank_indexes |-> <<>>, fse_table |-> "empty" ]

\* HuffmanTable::reinit_from: bit_ranks is cleared and not copied
reinit_from(t, other) ==
    LET r == HuffmanTable_reset(t)
    IN  [ decode |-> r.decode \o other.decode,
          weights |-> r.weights \o other.weights,
          max_num_bits |-> other.max_num_bits,
          bits |-> r.bits \o other.bits,
          bit_ranks |-> r.bit_ranks,
          rank_indexes |-> r.rank_indexes \o other.rank_indexes,
          fse_table |-> other.fse_table ]

\* BytesRead without the rounding up
BytesReadFloor(bits_read) == bits_read \div 8

\* lines 429-434
BytesRead(bits_read) ==
    IF bits_read % 8 = 0 THEN bits_read \div 8 ELSE (bits_read \div 8) + 1

\* lines 399-426: the weights are directly encoded, two per byte
ReadWeightsDirect(t, source) ==
    LET header == source[1]
        weights_raw == SubSeq(source, 2, Len(source))
        num_weights == header - 127
        t1 == [t EXCEPT !.weights = Resize(t.weights, num_weights, 0)]
        bytes_needed == IF num_weights % 2 = 0 THEN num_weights \div 2
                        ELSE (num_weights \div 2) + 1
        ws == [i \in 1..num_weights |->
                 IF (i - 1) % 2 = 0 THEN weights_raw[((i - 1) \div 2) + 1] \div 16
                 ELSE weights_raw[((i - 1) \div 2) + 1] % 16]
        bits_read == 8 + 4 * num_weights
    IN  IF Len(weights_raw) < bytes_needed
        THEN [table |-> t1, res |-> Err("NotEnoughBytesInSource", Len(weights_raw))]
        ELSE [table |-> [t1 EXCEPT !.weights = ws], res |-> Ok(BytesRead(bits_read))]

RECURSIVE SkipPadding(_, _)
\* lines 353-360: skip the zero padding and the first 1 found
SkipPadding(r, skipped_bits) ==
    LET g == get_bits(r, 1)
        n == skipped_bits + 1
    IN  IF g.val = 1 \/ n > 8 THEN [br |-> g.br, skipped_bits |-> n]
        ELSE SkipPadding(g.br, n)

\* The locals of the FSE path: the table being built, both cursors, the bit
\* reader, whose turn it is, and status "loop" until the path returns.
\* trace records the cursor operations in program order: <<"init", cursor,
\* state>>, <<"push", cursor, weight>>, <<"advance", cursor, new state>>.
FseRun(table, status, got, dec1, dec2, r, bits_read, trace) ==
    [ table |-> table, status |-> status, got |-> got, dec1 |-> dec1, dec2 |-> dec2,
      br |-> r, turn |-> 1, bits_read |-> bits_read, advances |-> 0, trace |-> trace ]

FseFailed(table, tag, got) ==
    FseRun(table, tag, got, 0, 0, BitReaderReversed_new(<<>>), 8, <<>>)

\* ClearWeights that clears nothing
KeepWeights(t) == t

\* line 369: self.weights.clear()
ClearWeights(t) == [t EXCEPT !.weights = <<>>]

\* lines 311-369: up to the clearing of the weights before the loop
FsePrologue(t, source) ==
    LET header == source[1]
        fse_stream == SubSeq(source, 2, Len(source))
        built == FSETable_build_decoder(fse_stream)
        t1 == [t EXCEPT !.fse_table = built.table]
        bytes_used_by_fse_header == built.used
        compressed_length == header - bytes_used_by_fse_header
        rest == SubSeq(fse_stream, bytes_used_by_fse_header + 1, Len(fse_stream))
        compressed_weights == SubSeq(rest, 1, compressed_length)
        pad == SkipPadding(BitReaderReversed_new(compressed_weights), 0)
        i1 == FSEDecoder_init_state(built.table, pad.br)
        i2 == FSEDecoder_init_state(built.table, i1.br)
        bits_read == 8 + (bytes_used_by_fse_header + compressed_length) * 8
    IN  IF header > Len(fse_stream)
            THEN FseFailed(t, "NotEnoughBytesForWeights", Len(fse_stream))
        ELSE IF ~built.ok THEN FseFailed(t1, "FSETableError", 0)
        ELSE IF bytes_used_by_fse_header > header
            THEN FseFailed(t1, "FSETableUsedTooManyBytes", bytes_used_by_fse_header)
        ELSE IF Len(rest) < compressed_length
            THEN FseFailed(t1, "NotEnoughBytesToDecompressWeights", Len(rest))
        ELSE IF pad.skipped_bits > 8 THEN FseFailed(t1, "ExtraPadding", pad.skipped_bits)
        ELSE FseRun(ClearWeights(t1), "loop", 0, i1.state, i2.state, i2.br,
                    bits_read, << <<"init", 1, i1.state>>, <<"init", 2, i2.state>> >>)

\* FseHalfStep that looks at the reader only after dec2 has advanced
FseHalfStepLateCheck(st) ==
    LET tab == st.table.fse_table
        cur == IF st.turn = 1 THEN st.dec1 ELSE st.dec2
        oth == IF st.turn = 1 THEN st.dec2 ELSE st.dec1
        w == FSEDecoder_decode_symbol(tab, cur)
        pushed == Append(st.table.weights, w)
        u == FSEDecoder_update_state(tab, cur, st.br)
        moved == [st EXCEPT !.dec1 = IF st.turn = 1 THEN u.state ELSE st.dec1,
                            !.dec2 = IF st.turn = 2 THEN u.state ELSE st.dec2,
                            !.br = u.br,
                            !.advances = st.advances + 1]
        last == FSEDecoder_decode_symbol(tab, oth)
        tr == st.trace \o << <<"push", st.turn, w>>, <<"advance", st.turn, u.state>> >>
    IN  IF st.turn = 2 /\ bits_remaining(u.br) <= -1
        THEN [moved EXCEPT !.table.weights = Append(pushed, last),
                           !.status = "Ok",
                           !.trace = tr \o << <<"push", 3 - st.turn, last>> >>]
        ELSE IF st.turn = 2 /\ Len(pushed) > 255
        THEN [moved EXCEPT !.table.weights = pushed, !.status = "TooManyWeights",
                           !.got = Len(pushed), !.trace = tr]
        ELSE [moved EXCEPT !.table.weights = pushed, !.turn = 3 - st.turn, !.trace = tr]

\* lines 372-380 (turn 1) and 382-396 (turn 2): push the cursor's symbol,
\* advance the cursor, then look at the reader
FseHalfStep(st) ==
    LET tab == st.table.fse_table
        cur == IF st.turn = 1 THEN st.dec1 ELSE st.dec2
        oth == IF st.turn = 1 THEN st.dec2 ELSE st.dec1
        w == FSEDecoder_decode_symbol(tab, cur)
        pushed == Append(st.table.weights, w)
        u == FSEDecoder_update_state(tab, cur, st.br)
        moved == [st EXCEPT !.dec1 = IF st.turn = 1 THEN u.state ELSE st.dec1,
                            !.dec2 = IF st.turn = 2 THEN u.state ELSE st.dec2,
                            !.br = u.br,
                            !.advances = st.advances + 1]
        last == FSEDecoder_decode_symbol(tab, oth)
        tr == st.trace \o << <<"push", st.turn, w>>, <<"advance", st.turn, u.state>> >>
    IN  IF bits_remaining(u.br) <= -1
        THEN [moved EXCEPT !.table.weights = Append(pushed, last),
                           !.status = "Ok",
                           !.trace = tr \o << <<"push", 3 - st.turn, last>> >>]
        ELSE IF st.turn = 2 /\ Len(pushed) > 255
        THEN [moved EXCEPT !.table.weights = pushed, !.status = "TooManyWeights",
                           !.got = Len(pushed), !.trace = tr]
        ELSE [moved EXCEPT !.table.weights = pushed, !.turn = 3 - st.turn, !.trace = tr]

RECURSIVE FseLoop(_)
\* lines 371-397: the loop, run until it breaks or returns
FseLoop(st) == IF st.status # "loop" THEN st ELSE FseLoop(FseHalfStep(st))

\* what read_weights returns after the FSE path
FseResult(st) ==
    IF st.status = "Ok" THEN Ok(BytesRead(st.bits_read)) ELSE Err(st.status, st.got)

\* HuffmanTable::read_weights: [table, res]
read_weights(t, source) ==
    IF Len(source) = 0 THEN [table |-> t, res |-> Err("SourceIsEmpty", 0)]
    ELSE IF source[1] <= 127
    THEN LET st == FseLoop(FsePrologue(t, source))
         IN  [table |-> st.table, res |-> FseResult(st)]
    ELSE ReadWeightsDirect(t, source)

\* lines 296-297: build_decoder once read_weights has returned rw; read is
\* what read_weights returned
BuildAfterRead(rw) ==
    IF rw.res.tag # "Ok" THEN [table |-> rw.table, res |-> rw.res, read |-> rw.res]
    ELSE LET b == build_table_from_weights(rw.table)
         IN  [table |-> b.table,
              res |-> IF b.res.tag = "Ok" THEN rw.res ELSE b.res,
              read |-> rw.res]

\* build_decoder without line 293
build_decoder_keep(t, source) == BuildAfterRead(read_weights(t, source))

\* HuffmanTable::build_decoder: [table, res, read]
build_decoder(t, source) ==
    BuildAfterRead(read_weights([t EXCEPT !.decode = <<>>], source))

----------------------------------------------------------------------------
(* HuffmanDecoder                                                          *)

\* a HuffmanDecoder value; live is FALSE once the value has been moved out
Decoder(live, table, state) == [live |-> live, table |-> table, state |-> state]
Moved == Decoder(FALSE, 0, 0)

Call(op, arg, res, ret, prev, read, used) ==
    [op |-> op, arg |-> arg, res |-> res, ret |-> ret, prev |-> prev, read |-> read, used |-> used]

\* HuffmanDecoder::new
HuffmanDecoder_new(table) == Decoder(TRUE, table, 0)

\* HuffmanDecoder::reset(mut self, new_table): self is taken by value; the
\* assignments are made to the callee's own value, which is dropped when the
\* call returns. The caller's binding is moved out. Returns what the caller
\* is left with.
HuffmanDecoder_reset(d, new_table) ==
    LET self == [d EXCEPT !.state = 0,
                          !.table = IF new_table # 0 THEN new_table ELSE d.table]
    IN  Moved

\* HuffmanDecoder::decode_symbol: [res, ret]
decode_symbol(d, t) ==
    IF d.state >= Len(t.decode) THEN [res |-> "PanicIndexOutOfBounds", ret |-> 0]
    ELSE [res |-> "Ok", ret |-> t.decode[d.state + 1].symbol]

\* HuffmanDecoder::init_state: [dec, br, ret, read]
init_state(d, t, r) ==
    LET num_bits == t.max_num_bits
        g == get_bits(r, num_bits)
    IN  [dec |-> [d EXCEPT !.state = g.val], br |-> g.br, ret |-> num_bits, read |-> g.val,
         res |-> "Ok"]

\* next_state without line 246
next_state_unmasked(d, t, r) ==
    IF d.state >= Len(t.decode)
    THEN [dec |-> d, br |-> r, ret |-> 0, read |-> 0, res |-> "PanicIndexOutOfBounds"]
    ELSE LET num_bits == t.decode[d.state + 1].num_bits
             g == get_bits(r, num_bits)
             shifted == d.state * Pow2(num_bits)
         IN  [dec |-> [d EXCEPT !.state = BitOr(shifted, g.val)], br |-> g.br,
              ret |-> num_bits, read |-> g.val, res |-> "Ok"]

\* HuffmanDecoder::next_state: [dec, br, ret, read, res]. state is a u64; it
\* stays below 2^12 and num_bits below 12, so the shift drops no bit.
next_state(d, t, r) ==
    IF d.state >= Len(t.decode)
    THEN [dec |-> d, br |-> r, ret |-> 0, read |-> 0, res |-> "PanicIndexOutOfBounds"]
    ELSE LET num_bits == t.decode[d.state + 1].num_bits
             g == get_bits(r, num_bits)
             shifted == d.state * Pow2(num_bits)
             masked == BitAnd(shifted, Len(t.decode) - 1)
         IN  [dec |-> [d EXCEPT !.state = BitOr(masked, g.val)], br |-> g.br,
              ret |-> num_bits, read |-> g.val, res |-> "Ok"]

----------------------------------------------------------------------------
(* Inputs                                                                  *)

TableIds == {1, 2}

\* directly encoded sources: one or two weights declared, then the bytes
DirectHeaders == {128, 129}
RawTails == { <<>>, <<0>>, <<33>>, <<49>>, <<187>>, <<192>> }

\* <<128, 187>> (one weight 11, a table of 2048 entries) is left to SpecBuild
DirectSources ==
    { <<h>> \o raw : h \in DirectHeaders, raw \in RawTails } \ { <<128, 187>> }

\* the last byte of an FSE payload: pad - 1 zero bits, the 1 that ends the
\* padding, then the fill bit repeated; no 1 at all when pad > 8
LastByte(pad, fill) ==
    IF pad > 8 THEN 0 ELSE Pow2(8 - pad) + fill * (Pow2(8 - pad) - 1)

Payload(n, pad, fill) ==
    [i \in 1..n |-> IF i < n THEN fill * 255 ELSE LastByte(pad, fill)]

FseSource(desc, n, pad, fill) == <<Len(desc) + n>> \o desc \o Payload(n, pad, fill)

PadBits == {1, 7, 8, 9}
Descs == {DescEven, DescSkew}

\* sources of the FSE-compressed encoding that are wrong before the loop
BadFseSources ==
    { <<0>>, <<5, 16, 63, 128>>, <<2, 9, 9>>, <<1, 16, 63>>, <<2, 16, 63>> }

\* short FSE-compressed sources, next to the direct ones
ShortFseSources ==
    { FseSource(DescEven, 1, 1, 0), FseSource(DescSkew, 1, 1, 1),
      FseSource(DescEven01, 1, 1, 1) }

TableSources == { <<>> } \cup DirectSources \cup BadFseSources \cup ShortFseSources

\* what the table that reinit_from copies from is built from
OtherSources == { <<129, 33>>, <<128, 192>>, FseSource(DescEven, 1, 1, 0) }

\* most payload bytes of a traced FSE-compressed source
MaxPayloadBytes == 35

FseSources ==
    BadFseSources \cup
    { FseSource(d, n, pad, fill) :
        d \in Descs, n \in 1..MaxPayloadBytes, pad \in PadBits, fill \in {0, 1} }

\* most weights of a sequence handed to build_table_from_weights on its own
MaxWeights == 3
WeightValues == {0, 1, 2, 3, 4, 10, 11, 12}
WeightSeqs == UNION { [1..n -> WeightValues] : n \in 1..MaxWeights }

\* the sources and bit streams of the decoding runs
DecSources == { <<129, 33>>, <<129, 34>>, <<128, 0>> }
Streams == { <<165>>, <<60, 90>> }
\* how far past its start a reader of the model is read
MaxOverrun == 2

----------------------------------------------------------------------------
(* State                                                                   *)

\* what a table call returned; read is what its read_weights returned
Returned(call, source, res, read) ==
    [call |-> call, source |-> source, res |-> res, read |-> read]
Plain(call) == Returned(call, <<>>, Ok(0), Ok(0))

NoCall == Call("none", 0, "Ok", 0, Moved, 0, 0)
NoRun == FseFailed(HuffmanTable_new, "idle", 0)

TablesInit ==
    /\ tables = [t \in TableIds |-> HuffmanTable_new]
    /\ result = [t \in TableIds |-> Plain("new")]

DecoderIdle ==
    /\ dec = Moved
    /\ br = BitReaderReversed_new(<<>>)
    /\ lastCall = NoCall

TraceIdle ==
    /\ pc = "idle"
    /\ run = NoRun

Init == TablesInit /\ DecoderIdle /\ TraceIdle

----------------------------------------------------------------------------
(* Table calls                                                             *)

Borrowed(t) == dec.live /\ dec.table = t

\* let t = HuffmanTable::new()
New(t) ==
    /\ ~Borrowed(t)
    /\ tables' = [tables EXCEPT ![t] = HuffmanTable_new]
    /\ result' = [result EXCEPT ![t] = Plain("new")]
    /\ UNCHANGED <<dec, br, lastCall, pc, run>>

\* t.reset()
Reset(t) ==
    /\ ~Borrowed(t)
    /\ tables' = [tables EXCEPT ![t] = HuffmanTable_reset(tables[t])]
    /\ result' = [result EXCEPT ![t] = Plain("reset")]
    /\ UNCHANGED <<dec, br, lastCall, pc, run>>

\* t.reinit_from(&o)
ReinitFrom(t, o) ==
    /\ t # o
    /\ ~Borrowed(t)
    /\ tables' = [tables EXCEPT ![t] = reinit_from(tables[t], tables[o])]
    /\ result' = [result EXCEPT ![t] = Returned("reinit_from", result[o].source, result[o].res, result[o].read)]
    /\ UNCHANGED <<dec, br, lastCall, pc, run>>

\* t.build_decoder(source)
BuildDecoder(t, source) ==
    /\ ~Borrowed(t)
    /\ LET b == build_decoder(tables[t], source)
       IN  /\ tables' = [tables EXCEPT ![t] = b.table]
           /\ result' = [result EXCEPT ![t] = Returned("build_decoder", source, b.res, b.read)]
    /\ UNCHANGED <<dec, br, lastCall, pc, run>>

NextTable ==
    \/ \E t \in TableIds : New(t)
    \/ Reset(1)
    \/ ReinitFrom(1, 2)
    \/ \E s \in TableSources : BuildDecoder(1, s)
    \/ \E s \in OtherSources : BuildDecoder(2, s)

\* the life of two tables
SpecTable == Init /\ [][NextTable]_vars

----------------------------------------------------------------------------
(* build_table_from_weights on its own: the table holds the weights that   *)
(* read_weights has just stored, and build_table_from_weights runs         *)

InitBuild ==
    /\ \E ws \in WeightSeqs :
          tables = [t \in TableIds |->
                      IF t = 1 THEN [HuffmanTable_new EXCEPT !.weights = ws]
                      ELSE HuffmanTable_new]
    /\ result = [t \in TableIds |->
                    IF t = 1 THEN Plain("read_weights")
                    ELSE Plain("new")]
    /\ DecoderIdle
    /\ TraceIdle

BuildTableFromWeights ==
    /\ result[1].call = "read_weights"
    /\ LET b == build_table_from_weights(tables[1])
       IN  /\ tables' = [tables EXCEPT ![1] = b.table]
           /\ result' = [result EXCEPT ![1] = Returned("build_table_from_weights", <<>>, b.res, Ok(0))]
    /\ UNCHANGED <<dec, br, lastCall, pc, run>>

NextBuild == BuildTableFromWeights

SpecBuild == InitBuild /\ [][NextBuild]_vars

----------------------------------------------------------------------------
(* build_decoder on an FSE-compressed source, one half-step of the loop at *)
(* a time                                                                  *)

\* lines 293-369
BeginBuild(source) ==
    /\ pc = "idle"
    /\ LET st == FsePrologue([tables[1] EXCEPT !.decode = <<>>], source)
       IN  /\ run' = st
           /\ tables' = [tables EXCEPT ![1] = st.table]
           /\ pc' = IF st.status = "loop" THEN "loop" ELSE "read"
    /\ result' = [result EXCEPT ![1] = Returned("running", source, Ok(0), Ok(0))]
    /\ UNCHANGED <<dec, br, lastCall>>

\* lines 372-380 or 382-396
HalfStep ==
    /\ pc = "loop"
    /\ LET st == FseHalfStep(run)
       IN  /\ run' = st
           /\ tables' = [tables EXCEPT ![1] = st.table]
           /\ pc' = IF st.status = "loop" THEN "loop" ELSE "read"
    /\ UNCHANGED <<result, dec, br, lastCall>>

\* lines 429-434 and 296-297
FinishBuild ==
    /\ pc = "read"
    /\ LET b == BuildAfterRead([table |-> run.table, res |-> FseResult(run)])
       IN  /\ tables' = [tables EXCEPT ![1] = b.table]
           /\ result' = [result EXCEPT ![1] = Returned("build_decoder", result[1].source, b.res, b.read)]
    /\ pc' = "done"
    /\ UNCHANGED <<run, dec, br, lastCall>>

NextFse ==
    \/ \E s \in FseSources : BeginBuild(s)
    \/ HalfStep
    \/ FinishBuild

SpecFse == Init /\ [][NextFse]_vars

----------------------------------------------------------------------------
(* Decoding: tables are built, a decoder is bound to one and driven over a *)
(* bit reader                                                              *)

\* let mut br = BitReaderReversed::new(stream)
NewReader(stream) ==
    /\ br' = BitReaderReversed_new(stream)
    /\ UNCHANGED <<tables, result, dec, lastCall, pc, run>>

\* let mut dec = HuffmanDecoder::new(&tables[t])
NewDecoder(t) ==
    /\ dec' = HuffmanDecoder_new(t)
    /\ lastCall' = Call("new", t, "Ok", 0, dec, 0, 0)
    /\ UNCHANGED <<tables, result, br, pc, run>>

\* dec.reset(new_table); new_table = 0 is None
ResetDecoder(new_table) ==
    /\ dec.live
    /\ dec' = HuffmanDecoder_reset(dec, new_table)
    /\ lastCall' = Call("reset", new_table, "Ok", 0, dec, 0, 0)
    /\ UNCHANGED <<tables, result, br, pc, run>>

\* dec.init_state(&mut br)
InitState ==
    /\ dec.live
    /\ bits_remaining(br) > -MaxOverrun
    /\ LET c == init_state(dec, tables[dec.table], br)
       IN  /\ dec' = c.dec
           /\ br' = c.br
           /\ lastCall' = Call("init_state", 0, c.res, c.ret, dec, c.read,
                               c.br.consumed - br.consumed)
    /\ UNCHANGED <<tables, result, pc, run>>

\* dec.decode_symbol()
DecodeSymbol ==
    /\ dec.live
    /\ LET c == decode_symbol(dec, tables[dec.table])
       IN  lastCall' = Call("decode_symbol", 0, c.res, c.ret, dec, 0, 0)
    /\ UNCHANGED <<tables, result, dec, br, pc, run>>

\* dec.next_state(&mut br)
NextState ==
    /\ dec.live
    /\ bits_remaining(br) > -MaxOverrun
    /\ LET c == next_state(dec, tables[dec.table], br)
       IN  /\ dec' = c.dec
           /\ br' = c.br
           /\ lastCall' = Call("next_state", 0, c.res, c.ret, dec, c.read,
                               c.br.consumed - br.consumed)
    /\ UNCHANGED <<tables, result, pc, run>>

Next ==
    \/ \E t \in TableIds, s \in DecSources : BuildDecoder(t, s)
    \/ \E stream \in Streams : NewReader(stream)
    \/ \E t \in TableIds : NewDecoder(t)
    \/ \E n \in {0} \cup TableIds : ResetDecoder(n)
    \/ InitState
    \/ DecodeSymbol
    \/ NextState

Spec == Init /\ [][Next]_vars

----------------------------------------------------------------------------
(* Properties                                                              *)

\* the last call on t was a build_decoder that returned Ok
BuiltOk(t) == result[t].call = "build_decoder" /\ result[t].res.tag = "Ok"
\* the last call on t was a build_decoder that returned an error
BuildFailed(t) ==
    /\ result[t].call = "build_decoder"
    /\ result[t].res.tag \notin
          {"Ok", "PanicU8Underflow", "PanicRankIndexAssert", "PanicIndexOutOfBounds"}

RECURSIVE PowerSum(_)
\* the sum of 2^(w-1) over the weights w > 0
PowerSum(ws) ==
    IF ws = <<>> THEN 0
    ELSE (IF Head(ws) > 0 THEN 2 ^ (Head(ws) - 1) ELSE 0) + PowerSum(Tail(ws))

\* the number of bits of x
BitLength(x) == CHOOSE m \in 0..30 : x < 2 ^ m /\ (m = 0 \/ 2 ^ (m - 1) <= x)
IsPowerOfTwo(x) == \E k \in 0..30 : x = 2 ^ k
LeftoverOf(ws) == 2 ^ BitLength(PowerSum(ws)) - PowerSum(ws)

AllWeightsSmall(ws) == \A i \in 1..Len(ws) : ws[i] <= 11
ValidWeights(ws) ==
    /\ AllWeightsSmall(ws)
    /\ PowerSum(ws) # 0
    /\ IsPowerOfTwo(LeftoverOf(ws))
    /\ BitLength(PowerSum(ws)) <= 11

\* the indexes (from 0) of the entries of t that carry (s, b)
Owned(t, s, b) == { i \in 0..(Len(t.decode) - 1) : t.decode[i + 1] = Entry(s, b) }
\* the entries of t that carry symbol s
Carrying(t, s) == { i \in 0..(Len(t.decode) - 1) : t.decode[i + 1].symbol = s }

\* the codespace of t is partitioned as C1 says
Partitioned(t) ==
    LET m == t.max_num_bits IN
    /\ Len(t.decode) = 2 ^ m
    /\ Len(t.bits) = Len(t.weights) + 1
    /\ \A i \in 1..Len(t.decode) :
          /\ 1 <= t.decode[i].num_bits /\ t.decode[i].num_bits <= m
          /\ \E s \in 0..Len(t.weights) : t.decode[i] = Entry(s, t.bits[s + 1])
    /\ \A s \in 0..Len(t.weights) :
          LET b == t.bits[s + 1]
              size == 2 ^ (m - b)
          IN  IF b = 0 THEN Carrying(t, s) = {}
              ELSE /\ Carrying(t, s) = Owned(t, s, b)
                   /\ \E k \in 0..(2 ^ b - 1) :
                         Owned(t, s, b) = (k * size)..(k * size + size - 1)

\* C1: after a build_decoder that returned Ok the decode table has
\* 2^max_num_bits entries, each with 1 <= num_bits <= max_num_bits, and every
\* symbol 0..=weights.len() with code length b > 0 owns exactly one aligned
\* run of 2^(max_num_bits-b) entries carrying (symbol, b), the runs covering
\* the table; symbols of code length 0 own no entry.
C1_CodespacePartition == (pc = "done" /\ BuiltOk(1)) => Partitioned(tables[1])

\* C2: an FSE-compressed read_weights never returns Ok with more than 255
\* weights, so a build_decoder that succeeded holds between 1 and 255 weights.
C2_AtMost255Weights ==
    /\ (pc = "read" /\ run.status = "Ok") => Len(run.table.weights) <= 255
    /\ (pc = "done" /\ BuiltOk(1)) => Len(tables[1].weights) \in 1..255

\* C5: build_table_from_weights returns Ok exactly when every weight is at
\* most 11, the weight sum is not 0, the leftover is a power of two and
\* max_bits is at most 11; an error it returns names a condition that fails;
\* it never panics.
C5_OkIffValid ==
    result[1].call = "build_table_from_weights" =>
        LET ws == tables[1].weights
            tag == result[1].res.tag
        IN  /\ tag \in {"Ok", "WeightBiggerThanMaxNumBits", "MissingWeights",
                        "LeftoverIsNotAPowerOf2", "MaxBitsTooHigh"}
            /\ tag = "Ok" <=> ValidWeights(ws)
            /\ tag = "WeightBiggerThanMaxNumBits" =>
                  /\ ~AllWeightsSmall(ws)
                  /\ result[1].res.got > 11
                  /\ \E i \in 1..Len(ws) : ws[i] = result[1].res.got
            /\ tag = "MissingWeights" => PowerSum(ws) = 0
            /\ tag = "LeftoverIsNotAPowerOf2" => ~IsPowerOfTwo(LeftoverOf(ws))
            /\ tag = "MaxBitsTooHigh" =>
                  BitLength(PowerSum(ws)) > 11 /\ result[1].res.got = BitLength(PowerSum(ws))
            /\ tag = "Ok" => tables[1].rank_indexes[1] = Len(tables[1].decode)

C5_Witness ==
    /\ result[1].call = "build_table_from_weights"
    /\ result[1].res.tag = "Ok"
    /\ Len(tables[1].weights) = 3
    /\ tables[1].max_num_bits = 11

\* C10: with every weight at most 11 and a weight sum above 0, the leftover
\* is between 1 and 2^(max_bits-1), LeftoverIsNotAPowerOf2 never reports 0,
\* no code length underflows, and on a valid weight sequence the implicit
\* symbol has a weight in 1..max_bits, a code length in 1..max_bits and at
\* least one entry of the table.
C10_LeftoverRange ==
    LET ws == tables[1].weights
        m == BitLength(PowerSum(ws))
        last == Len(ws) + 1
    IN  (result[1].call = "build_table_from_weights" /\ AllWeightsSmall(ws) /\ PowerSum(ws) > 0) =>
            /\ 1 <= LeftoverOf(ws) /\ LeftoverOf(ws) <= 2 ^ (m - 1)
            /\ result[1].res.tag # "PanicU8Underflow"
            /\ result[1].res.tag = "LeftoverIsNotAPowerOf2" =>
                  result[1].res.got = LeftoverOf(ws) /\ result[1].res.got # 0
            /\ ValidWeights(ws) =>
                  /\ tables[1].max_num_bits = m
                  /\ tables[1].bits[last] = m + 1 - BitLength(LeftoverOf(ws))
                  /\ tables[1].bits[last] \in 1..m
                  /\ BitLength(LeftoverOf(ws)) \in 1..m
                  /\ \A i \in 1..Len(ws) :
                        tables[1].bits[i] = IF ws[i] > 0 THEN m + 1 - ws[i] ELSE 0
                  /\ Owned(tables[1], Len(ws), tables[1].bits[last]) # {}

C10_Witness ==
    /\ result[1].call = "build_table_from_weights"
    /\ result[1].res.tag = "Ok"
    /\ Len(tables[1].weights) >= 2
    /\ tables[1].bits[Len(tables[1].weights) + 1] = 1
    /\ LeftoverOf(tables[1].weights) = 2 ^ (tables[1].max_num_bits - 1)

\* C3: a decoder bound to a successfully built table keeps state below
\* decode.len() after init_state and after every next_state, decode_symbol
\* never indexes out of bounds, and next_state reads and returns exactly the
\* num_bits of the entry at the state before the call, the new state being
\* ((s << num_bits) & (decode.len() - 1)) | new_bits.
C3_StateInBounds ==
    (dec.live /\ BuiltOk(dec.table)) =>
        LET t == tables[dec.table]
            n == Len(t.decode)
            s == lastCall.prev.state
        IN  /\ dec.state < n
            /\ BitAnd(dec.state, n - 1) = dec.state
            /\ lastCall.op \in {"init_state", "decode_symbol", "next_state"} =>
                  lastCall.res = "Ok"
            /\ lastCall.op = "init_state" =>
                  lastCall.ret = t.max_num_bits /\ lastCall.used = lastCall.ret
            /\ lastCall.op = "decode_symbol" => lastCall.ret = t.decode[dec.state + 1].symbol
            /\ lastCall.op = "next_state" =>
                  /\ lastCall.ret = t.decode[s + 1].num_bits
                  /\ lastCall.used = lastCall.ret
                  /\ lastCall.read < 2 ^ lastCall.ret
                  /\ dec.state = ((s * 2 ^ lastCall.ret) % n) + lastCall.read

C3_Witness ==
    /\ dec.live /\ BuiltOk(dec.table)
    /\ lastCall.op = "next_state"
    /\ lastCall.ret = 2
    /\ lastCall.read >= 1
    /\ lastCall.prev.state * 4 >= Len(tables[dec.table].decode)

\* C4: when read_weights returns Ok(n) for a source with header h, n is
\* 1 + h if h <= 127 and 1 + ceil((h - 127) / 2) if h >= 128, and n is at
\* most the length of the source; build_decoder returns the same n.
C4_BytesUsed ==
    \A t \in TableIds :
        (result[t].call = "build_decoder" /\ result[t].read.tag = "Ok") =>
            LET src == result[t].source
                h == src[1]
                n == result[t].read.bytes
            IN  /\ h <= 127 => n = 1 + h
                /\ h >= 128 => n = 1 + ((h - 127) + 1) \div 2
                /\ n <= Len(src)
                /\ result[t].res.tag = "Ok" => result[t].res.bytes = n

C4_Witness ==
    /\ BuiltOk(1) /\ result[1].source = FseSource(DescEven01, 1, 1, 1)
    /\ result[2].call = "build_decoder"
    /\ result[2].source = <<128, 192>>
    /\ result[2].read.tag = "Ok"

\* C6: after reset the caller still holds the decoder, with state 0 and bound
\* to the table given (or to the table it was bound to, when given None).
C6_ResetKeepsDecoderUsable ==
    lastCall.op = "reset" =>
        /\ dec.live
        /\ dec.state = 0
        /\ dec.table = IF lastCall.arg # 0 THEN lastCall.arg ELSE lastCall.prev.table

\* the cursor that acts in the k-th half-step of the loop
CursorOf(k) == 1 + ((k - 1) % 2)
\* the state that cursor was in before the k-th half-step: where its init
\* left it, or where its last advance (half-step k - 2) left it
StateBefore(tr, k) == IF k <= 2 THEN tr[k][3] ELSE tr[2 * k - 2][3]
\* the k-th half-step pushed its cursor's symbol as the k-th weight and then
\* advanced that cursor
HalfStepInOrder(st, k) ==
    /\ st.trace[2 * k + 1] = <<"push", CursorOf(k), st.table.weights[k]>>
    /\ st.table.weights[k] =
          FSEDecoder_decode_symbol(st.table.fse_table, StateBefore(st.trace, k))
    /\ st.trace[2 * k + 2][1] = "advance"
    /\ st.trace[2 * k + 2][2] = CursorOf(k)

\* C7: in the FSE loop dec1 and dec2 are initialised in this order, the
\* half-steps alternate dec1, dec2, ..., each pushing its cursor's symbol and
\* then advancing that cursor; the loop goes on only while the reader is not
\* exhausted, and at the first advance that exhausts it exactly one more
\* weight is pushed, the symbol of the other cursor: on success the weights
\* number the advances plus one.
C7_Alternation ==
    (pc \in {"loop", "read", "done"} /\ run.status \in {"loop", "Ok", "TooManyWeights"}) =>
        LET tr == run.trace
            n == run.advances
            ws == run.table.weights
            ok == run.status = "Ok"
        IN  /\ Len(tr) = 2 + 2 * n + (IF ok THEN 1 ELSE 0)
            /\ Len(ws) = n + (IF ok THEN 1 ELSE 0)
            /\ tr[1][1] = "init" /\ tr[1][2] = 1
            /\ tr[2][1] = "init" /\ tr[2][2] = 2
            /\ n >= 1 =>
                  /\ HalfStepInOrder(run, n)
                  /\ tr[2 * n + 2][3] = (IF CursorOf(n) = 1 THEN run.dec1 ELSE run.dec2)
            /\ run.status = "loop" =>
                  /\ run.turn = CursorOf(n + 1)
                  /\ n >= 1 => bits_remaining(run.br) >= 0
            /\ run.status = "TooManyWeights" => bits_remaining(run.br) >= 0
            /\ ok =>
                  /\ n >= 1
                  /\ bits_remaining(run.br) <= -1
                  /\ tr[2 * n + 3] = <<"push", 3 - CursorOf(n), ws[n + 1]>>
                  /\ ws[n + 1] =
                        FSEDecoder_decode_symbol(run.table.fse_table, StateBefore(tr, n + 1))
            /\ pc # "loop" => \A k \in 1..n : HalfStepInOrder(run, k)

C7_Witness ==
    /\ pc = "done"
    /\ run.status = "Ok"
    /\ run.advances >= 4
    /\ CursorOf(run.advances) = 2

\* what C8 compares of a table
Observable(t) == <<t.weights, t.bits, t.max_num_bits, t.decode>>

\* C8: after a build_decoder(source) that returned Ok, the weights, bits,
\* max_num_bits and decode of the table are those of any other table so
\* built from source, and those a new table gets from source, whatever the
\* table went through before.
C8_HistoryIndependent ==
    /\ \A a, b \in TableIds :
          (BuiltOk(a) /\ BuiltOk(b) /\ result[a].source = result[b].source) =>
              Observable(tables[a]) = Observable(tables[b])
    /\ \A t \in TableIds :
          BuiltOk(t) =>
              Observable(tables[t]) =
                  Observable(build_decoder(HuffmanTable_new, result[t].source).table)

C8_Witness ==
    /\ BuiltOk(1) /\ BuiltOk(2)
    /\ result[1].source = result[2].source
    /\ tables[1].fse_table # tables[2].fse_table

\* C9: after a build_decoder that returned an error the decode array is
\* empty, whatever the table held before (so its length is not
\* 2^max_num_bits).
C9_FailedBuildEmptiesDecode ==
    \A t \in TableIds :
        BuildFailed(t) =>
            /\ Len(tables[t].decode) = 0
            /\ Len(tables[t].decode) # 2 ^ tables[t].max_num_bits

C9_Witness ==
    /\ BuildFailed(1)
    /\ result[1].res.tag = "LeftoverIsNotAPowerOf2"
    /\ tables[1].max_num_bits = 2
    /\ tables[1].rank_indexes # <<>>

====
